---- MODULE Spec2Model ----
(***************************************************************************)
(* A model of pac-backend: the Talk store (data package, gorm v1 on the     *)
(* talks table, the tables of its related rows and their join tables), the *)
(* process's graceful-shutdown path and the route table with its           *)
(* middleware chains (main.go).                                            *)
(*                                                                         *)
(* The store is modelled at the granularity of SQL statements: every       *)
(* statement is atomic, and a store method that issues several statements  *)
(* is several steps that other requests may interleave with.               *)
(***************************************************************************)
EXTENDS Integers, Sequences, FiniteSets, TLC

(* ----------------------------- bounds --------------------------------- *)

\* Largest primary key the table hands out or accepts.
MaxId == 2

\* Number of store calls one behaviour issues.
MaxCalls == 2

\* Largest primary key the tables of related rows hand out.
MaxRel == 2

\* The concurrent request goroutines calling the store.
Procs == {1, 2}

(* ----------------------------- Talk ----------------------------------- *)

\* The three declared levels.
TalkLevels == {"beginner", "advanced", "expert"}

\* A Talk value: the key, the four columns, and the three relation fields,
\* each a slice of related values (nil here).
Talk(id, title, dur, lang, level) ==
    [ID |-> id, Title |-> title, DurationInMinutes |-> dur,
     Language |-> lang, Level |-> level,
     Persons |-> <<>>, Topics |-> <<>>, TalkDates |-> <<>>]

\* The columns other than the primary key.
Columns == {"Title", "DurationInMinutes", "Language", "Level"}

\* The relation fields, in the order of the struct and of the Preload calls.
Relations == <<"Persons", "Topics", "TalkDates">>

RelationNames == {"Persons", "Topics", "TalkDates"}

\* The relations kept in a join table (talks_at, talk_topic). TalkDates is
\* has-many: a talk_dates row carries the key of its talk.
ManyToMany == {"Persons", "Topics"}

\* The elements of a sequence.
Range(s) == { s[k] : k \in 1..Len(s) }

\* The Preload paths of GetTalkByID, in the order of the calls: every relation
\* field, each followed by the fields preloaded on its elements.
PreloadPaths ==
    << <<"Persons">>, <<"Persons", "Organization">>,
       <<"Topics">>, <<"Topics", "Children">>,
       <<"TalkDates">>, <<"TalkDates", "Room">>, <<"TalkDates", "Event">> >>

\* The nested fields of the elements of each relation field.
NestedOf ==
    [r \in RelationNames |->
       { q[2] : q \in { q \in Range(PreloadPaths) : Len(q) = 2 /\ q[1] = r } }]

\* The nested fields that are belongs-to: the element's row holds the key of
\* the nested row. Children is has-many: a child topic holds its parent's key.
BelongsTo == {"Organization", "Room", "Event"}

\* The tables of related and nested rows. The children of a topic are topics.
Tables == RelationNames \cup BelongsTo

TableOf(n) == IF n = "Children" THEN "Topics" ELSE n

\* The foreign-key columns of a row of table tb.
RefNames(tb) ==
    IF tb \in RelationNames
    THEN { IF n \in BelongsTo THEN n ELSE "Parent" : n \in NestedOf[tb] }
    ELSE {}

NoRefs(tb) == [n \in RefNames(tb) |-> 0]

\* A stored row of a table of related or nested rows: its own columns, as one
\* content, and its foreign keys.
Row(data, ref) == [Data |-> data, Ref |-> ref]

\* A nested value (Organization, child Topic, Room, Event): its primary key,
\* 0 when the caller sends none, and its content.
Leaf(id, data) == [ID |-> id, Data |-> data]

\* A related value (Person, Topic, TalkDate): its primary key, 0 when the
\* caller sends none, its content, its foreign keys, and its nested fields
\* (nil here).
Elem(r, id, data) ==
    [ID |-> id, Data |-> data, Ref |-> NoRefs(r),
     Sub |-> [n \in NestedOf[r] |-> <<>>]]

\* Two complete talks.
TalkGo == Talk(0, "Go", 30, "en", "beginner")

TalkTLA == Talk(0, "TLA", 45, "de", "expert")

\* The bodies the callers send without a key: the two complete talks, and the
\* second one with each column in turn left at its zero value or given an
\* undeclared level.
Bodies ==
    { TalkGo,
      TalkTLA,
      Talk(0, "", 45, "de", "expert"),
      Talk(0, "TLA", 0, "de", "expert"),
      Talk(0, "TLA", 45, "", "expert"),
      Talk(0, "TLA", 45, "de", "guru"),
      Talk(0, "TLA", 45, "de", "") }

Ids == 1..MaxId

\* The related values a caller sends in relation field r: one under the key
\* of a row stored earlier, with another content, and one without a key, to
\* be created, that carries in each nested field a value under the key of a
\* row stored earlier, with another content.
SentElems(r) ==
    { Elem(r, 1, "sent"),
      [Elem(r, 0, "sent") EXCEPT !.Sub = [n \in NestedOf[r] |-> <<Leaf(1, "sent")>>]] }

\* The payloads without related values: the bodies, and a complete talk that
\* names a key.
Payloads == Bodies \cup { [TalkTLA EXCEPT !.ID = 1] }

\* The payloads with related values: a complete talk, bare and with one
\* related value in one relation field.
Related ==
    {TalkTLA} \cup
    UNION { { [TalkTLA EXCEPT ![r] = <<e>>] : e \in SentElems(r) } : r \in RelationNames }

\* The payloads UpdateTalk is called with on talks that have related rows.
RelatedUpdates == { TalkGo, [TalkGo EXCEPT !.Persons = <<Elem("Persons", 1, "sent")>>] }

\* gorm's field.IsBlank: the field holds the zero value of its Go type.
IsBlank(f, v) ==
    IF f \in {"ID", "DurationInMinutes"} THEN v = 0
    ELSE IF f \in RelationNames THEN v = <<>>
    ELSE v = ""

\* The validate tags declared on the fields of Talk: none.
TalkValidateTags == [f \in {} |-> "required"]

\* validator.Struct: the fields whose declared constraint is violated.
ValidateStruct(t) ==
    { f \in DOMAIN TalkValidateTags :
        TalkValidateTags[f] = "required" /\ IsBlank(f, t[f]) }

\* createCallback: the row written to talks, the key and the four columns
\* (none has a default). The relation fields are no columns of talks: they
\* are saved by SaveAssociations.
InsertRow(t, id) ==
    [f \in {"ID"} \cup Columns |-> IF f = "ID" THEN id ELSE t[f]]

\* An ID column that is no primary key: any key may be inserted again.
NoPrimaryKey(tbl, id) == FALSE

\* ID is the primary key: inserting a key the table holds fails.
DuplicateKey(tbl, id) == id \in DOMAIN tbl

VARIABLES
    talks,      \* the talks table: primary key -> row
    autoInc,    \* the table's AUTO_INCREMENT counter
    related,    \* per table of related or nested rows: primary key -> row
    links,      \* <<relation, talk key, related key>>: the rows of talks_at and
                \* talk_topic, and the talk_id column of the talk_dates rows
    relInc,     \* per table of related or nested rows, its AUTO_INCREMENT counter
    call,       \* per goroutine: the store call in flight, Idle when none
    last,       \* the call that returned most recently, with what it returned
    ncalls,     \* calls issued so far
    creator,    \* history: primary key -> number of the call that inserted the row
    inserted,   \* history: primary key -> payload of the insert, while the row is untouched
    refs,       \* history: primary key -> per relation, the related keys stored at the insert
    addedOk,    \* history: untouched rows whose AddTalk returned success
    deleted,    \* history: keys a DeleteTalkByID reported deleted, not re-created since
    delCount,   \* history: inserting call -> number of DeleteTalkByID successes on its row
    addLog      \* history: (call, id) of every successful AddTalk

relVars == <<related, links, relInc>>

storeVars ==
    <<talks, autoInc, relVars, call, last, ncalls, creator, inserted, refs, addedOk,
      deleted, delCount, addLog>>

VARIABLES
    mainPc,     \* main: "wait" on the signal channel, "signalled", "shutdown", "returned"
    servePc,    \* the ListenAndServe goroutine: "starting", "serving", "returned"
    listening,  \* the listener accepts connections
    inflight,   \* requests being served
    elapsed,    \* seconds since the Shutdown context was made
    proc        \* the process: "running", "exit0", "exit1", "killed"

serverVars == <<mainPc, servePc, listening, inflight, elapsed, proc>>

VARIABLES
    req,        \* the request being routed
    chain,      \* the middleware chain and handler of the route it matched
    pos,        \* the next link of the chain to run; 0 when no request is in the router
    status,     \* the status code written for it; 0 while none is
    ran         \* the links and the handler that ran for it, in order

routerVars == <<req, chain, pos, status, ran>>

vars == <<storeVars, serverVars, routerVars>>

ZeroTalk == Talk(0, "", 0, "", "")

Idle ==
    [n |-> 0, op |-> "Idle", pc |-> "done", id |-> 0, talk |-> ZeroTalk, inc |-> 0,
     ent |-> ZeroTalk, k |-> 0]

NoReturn == [n |-> 0, op |-> "Idle", id |-> 0, arg |-> ZeroTalk, err |-> "", ret |-> <<>>]

\* The tables the process may find at start: the database outlives the
\* process. Rows of earlier runs have call 0 as their creator.
InitTables == { [i \in {} |-> ZeroTalk], [i \in {1} |-> InsertRow(TalkGo, 1)] }

\* Each table of related and nested rows holds one row of an earlier run: a
\* person with its organization, a topic without a parent, a talk date with
\* its room and event, linked to no talk that is left.
InitRelated ==
    [tb \in Tables |->
       [i \in {1} |->
          Row("stored", [n \in RefNames(tb) |-> IF n = "Parent" THEN 0 ELSE 1])]]

InitStore ==
    /\ talks \in InitTables
    /\ autoInc = Cardinality(DOMAIN talks) + 1
    /\ related = InitRelated
    /\ links = {}
    /\ relInc = [tb \in Tables |-> 2]
    /\ refs = [i \in {} |-> [r \in RelationNames |-> {}]]
    /\ call = [p \in Procs |-> Idle]
    /\ last = NoReturn
    /\ ncalls = 0
    /\ creator = [i \in DOMAIN talks |-> 0]
    /\ inserted = [i \in {} |-> ZeroTalk]
    /\ addedOk = {}
    /\ deleted = {}
    /\ delCount = [i \in {0} |-> 0]
    /\ addLog = {}

(* ------------------------ gorm, statement level ------------------------ *)

Put(f, k, v) == [x \in DOMAIN f \cup {k} |-> IF x = k THEN v ELSE f[x]]

Drop(f, ks) == [x \in DOMAIN f \ ks |-> f[x]]

Max(a, b) == IF a >= b THEN a ELSE b

\* scope.whereSQL: a value with a non-zero primary key adds "talks.id = <key>".
PrimaryConds(v) == IF v.ID = 0 THEN {} ELSE {v.ID}

\* The rows a WHERE clause made of primary-key equalities selects.
Match(tbl, conds) == { i \in DOMAIN tbl : \A c \in conds : i = c }

\* A store that passes gorm's ErrRecordNotFound through unwrapped.
ClassifyUnwrapped(found) == IF found THEN "" ELSE "Unexpected"

\* gorm.IsRecordNotFoundError, and the wrapping the store does on it.
Classify(found) == IF found THEN "" ELSE "NotFound"

\* convertInterfaceToMap on a struct: only the non-blank fields are updated.
UpdateAttrs(t) == { f \in DOMAIN t : ~IsBlank(f, t[f]) }

\* updatedAttrsWithValues: the attributes that are columns of talks. With none
\* of them the update callbacks are skipped altogether.
NormalAttrs(t) == UpdateAttrs(t) \ RelationNames

\* UPDATE talks SET <attrs of t> on one row.
SetAttrs(row, t) ==
    [f \in DOMAIN row |-> IF f \in UpdateAttrs(t) THEN t[f] ELSE row[f]]

\* A Talk with a DeletedAt column: the rows are marked, not removed.
DeleteRowsSoft(tbl, hits) == tbl

\* deleteCallback: Talk has no DeletedAt column, the rows are removed.
DeleteRows(tbl, hits) == Drop(tbl, hits)

\* The key of a new row: the payload's when it has one, else the counter's.
NewKey(t, counter) == IF t.ID = 0 THEN counter ELSE t.ID

\* The tables of related rows, as one value.
RelState == [related |-> related, links |-> links, relInc |-> relInc]

\* Save of the children of a topic created under key parent, gorm's defaults
\* applying: a child without a key is inserted; a child with a key has every
\* column updated, or is inserted under its key when no row has it; either
\* way it gets the parent's key.
RECURSIVE SaveChildren(_, _, _)
SaveChildren(kids, parent, st) ==
    IF kids = <<>> THEN st
    ELSE LET v == Head(kids)
             key == IF v.ID = 0 THEN st.relInc.Topics ELSE v.ID
         IN SaveChildren(Tail(kids), parent,
                [st EXCEPT !.related.Topics =
                               Put(@, key, Row(v.Data, [n \in {"Parent"} |-> parent])),
                           !.relInc.Topics = Max(@, key + 1)])

\* Save of a related value e that has no key, gorm's defaults applying to its
\* own fields. Each belongs-to value it carries is saved first (inserted when
\* it has no key; else every column updated, or inserted under its key when
\* no row has it) and its key becomes the foreign key of e. Then e is
\* inserted under a key from its table's counter, and then its children are
\* saved. The state after it, and the key of e.
CreateElem(r, e, st) ==
    LET sent == { n \in NestedOf[r] \cap BelongsTo : e.Sub[n] # <<>> }
        keyOf(n) == IF e.Sub[n][1].ID = 0 THEN st.relInc[n] ELSE e.Sub[n][1].ID
        ref == [f \in RefNames(r) |-> IF f \in sent THEN keyOf(f) ELSE e.Ref[f]]
        key == st.relInc[r]
        kids == IF "Children" \in NestedOf[r] THEN e.Sub.Children ELSE <<>>
        s1 == [st EXCEPT
                 !.related = [tb \in Tables |->
                    IF tb \in sent
                    THEN Put(@[tb], keyOf(tb), Row(e.Sub[tb][1].Data, NoRefs(tb)))
                    ELSE IF tb = r THEN Put(@[tb], key, Row(e.Data, ref))
                    ELSE @[tb]],
                 !.relInc = [tb \in Tables |->
                    IF tb \in sent THEN Max(@[tb], keyOf(tb) + 1)
                    ELSE IF tb = r THEN key + 1
                    ELSE @[tb]]]
    IN [st |-> SaveChildren(kids, key, s1), key |-> key]

\* Relations saved without their references: a related row is created, but
\* no join row is added and no talk_id is set.
SaveElemNoReference(r, owner, e, st) ==
    IF e.ID = 0 THEN CreateElem(r, e, st).st ELSE st

\* saveAfterAssociationsCallback on one element of a relation field tagged
\* association_autoupdate:false. An element without a key is created and
\* linked to the talk. An element with a key is not written, nor is anything
\* it carries: of a many-to-many relation it gets a join row, whether or not
\* a row with that key is stored; of TalkDates nothing is stored.
SaveElem(r, owner, e, st) ==
    IF e.ID = 0
    THEN LET c == CreateElem(r, e, st) IN
         [c.st EXCEPT !.links = @ \cup {<<r, owner, c.key>>}]
    ELSE IF r \in ManyToMany
    THEN [st EXCEPT !.links = @ \cup {<<r, owner, e.ID>>}]
    ELSE st

RECURSIVE SaveElems(_, _, _, _)
SaveElems(r, owner, elems, st) ==
    IF elems = <<>> THEN st
    ELSE SaveElems(r, owner, Tail(elems), SaveElem(r, owner, Head(elems), st))

RECURSIVE SaveFields(_, _, _, _)
SaveFields(k, owner, t, st) ==
    IF k > Len(Relations) THEN st
    ELSE SaveFields(k + 1, owner, t,
                    SaveElems(Relations[k], owner, t[Relations[k]], st))

\* saveAfterAssociationsCallback on a Talk whose key is owner: the relation
\* fields in the order of the struct, in the transaction of the statement.
SaveAssociations(owner, t, st) == SaveFields(1, owner, t, st)

\* The sequences that list the elements of S once each.
RECURSIVE Orders(_)
Orders(S) ==
    IF S = {} THEN { <<>> }
    ELSE UNION { { <<x>> \o s : s \in Orders(S \ {x}) } : x \in S }

\* The query of a Preload of relation field r on the talk with key owner:
\* the stored rows linked to it, in the order the database returns them (the
\* query has no ORDER BY), their nested fields not loaded yet.
PreloadRows(r, owner) ==
    Orders({ [Elem(r, k, related[r][k].Data) EXCEPT !.Ref = related[r][k].Ref] :
               k \in { j \in DOMAIN related[r] : <<r, owner, j>> \in links } })

\* The nested values the query of a Preload of nested field n finds for the
\* element x: the row x's foreign key names, or the topics whose parent is x.
NestedRows(n, x) ==
    IF n \in BelongsTo
    THEN { Leaf(k, related[n][k].Data) : k \in DOMAIN related[n] \cap {x.Ref[n]} }
    ELSE { Leaf(k, related.Topics[k].Data) :
             k \in { j \in DOMAIN related.Topics : related.Topics[j].Ref.Parent = x.ID } }

\* The query of a Preload of nested field n on the elements read before: the
\* elements with that field loaded.
PreloadNested(n, elems) ==
    LET found == UNION { Orders(NestedRows(n, x)) : x \in Range(elems) } IN
    { [i \in 1..Len(elems) |-> [elems[i] EXCEPT !.Sub[n] = f[i]]] :
        f \in { g \in [1..Len(elems) -> found] :
                  \A i \in 1..Len(elems) : g[i] \in Orders(NestedRows(n, elems[i])) } }

\* preloadCallback issues the query of path k: that of a relation field
\* always; that of a nested field when the elements read before give it keys
\* to look for (a non-zero foreign key for belongs-to, any element for
\* Children).
Issued(k, ent) ==
    LET path == PreloadPaths[k] IN
    \/ Len(path) = 1
    \/ /\ Len(path) = 2 /\ path[2] \in BelongsTo
       /\ \E x \in Range(ent[path[1]]) : x.Ref[path[2]] # 0
    \/ /\ Len(path) = 2 /\ path[2] \notin BelongsTo
       /\ ent[path[1]] # <<>>

\* The path of the next query after that of path k, 0 when there is none.
NextPath(k, ent) ==
    LET later == { j \in (k + 1)..Len(PreloadPaths) : Issued(j, ent) } IN
    IF later = {} THEN 0 ELSE CHOOSE j \in later : \A i \in later : j <= i

\* A row of talks scanned into a Talk value v: the relation fields of v stay.
Scan(row, v) == [f \in DOMAIN v |-> IF f \in DOMAIN row THEN row[f] ELSE v[f]]

\* First(&talk, id) on a zero Talk: the query on talks. The preloads follow
\* it when it finds the row, a query each.
Lookup(tbl, id) ==
    LET hit == Match(tbl, {id}) IN
    [err |-> Classify(hit # {}),
     ret |-> IF hit = {} THEN <<>> ELSE <<Scan(tbl[id], ZeroTalk)>>]

\* A call starts on the first goroutine that is free: the goroutines are
\* alike, which of them serves a call makes no difference.
Begin(p) ==
    /\ call[p] = Idle /\ ncalls < MaxCalls
    /\ \A q \in Procs : q < p => call[q] # Idle

\* The call of goroutine p returns (e, r).
Return(p, c, a, e, r) ==
    /\ call' = [call EXCEPT ![p] = Idle]
    /\ last' = [n |-> c.n, op |-> c.op, id |-> c.id, arg |-> a, err |-> e, ret |-> r]

\* The call of goroutine p goes on to its next statement.
Continue(p, c) ==
    /\ call' = [call EXCEPT ![p] = c]
    /\ UNCHANGED last

NewCall(o, i, t) ==
    [n |-> ncalls + 1, op |-> o, pc |-> "start", id |-> i, talk |-> t, inc |-> 0,
     ent |-> ZeroTalk, k |-> 0]

Ghosts == <<creator, inserted, refs, addedOk, deleted, delCount, addLog>>

(* ----------------------------- store calls ----------------------------- *)

\* Every counter of a table of related rows is within its bound.
RelBounded(st) == \A tb \in Tables : st.relInc[tb] <= MaxRel + 1

\* GetTalkByID up to and including the query on talks.
GetTalkByID(p, id) ==
    /\ UNCHANGED <<serverVars, routerVars>>
    /\ Begin(p)
    /\ LET r == Lookup(talks, id) IN
       IF r.err # ""
       THEN Return(p, NewCall("Get", id, ZeroTalk), ZeroTalk, r.err, <<>>)
       ELSE Continue(p, [NewCall("Get", id, ZeroTalk) EXCEPT
                           !.pc = "preload", !.ent = r.ret[1], !.k = 1,
                           !.inc = creator[id]])
    /\ ncalls' = ncalls + 1
    /\ UNCHANGED <<talks, autoInc, relVars, Ghosts>>

\* The next Preload query of a GetTalkByID: that of a relation field, or that
\* of a nested field on the elements of a relation field read before. Each
\* is a statement of its own, outside any transaction. After the last one
\* GetTalkByID returns, and with it the AddTalk or UpdateTalk that called it.
Preload(p) ==
    /\ UNCHANGED <<serverVars, routerVars>>
    /\ call[p].pc = "preload"
    /\ LET c == call[p]
           path == PreloadPaths[c.k]
           r == path[1]
       IN \E rows \in IF Len(path) = 1 THEN PreloadRows(r, c.ent.ID)
                      ELSE PreloadNested(path[2], c.ent[r]) :
            LET ent == [c.ent EXCEPT ![r] = rows] IN
            IF NextPath(c.k, ent) # 0
            THEN /\ Continue(p, [c EXCEPT !.ent = ent, !.k = NextPath(c.k, ent)])
                 /\ UNCHANGED <<addLog, addedOk>>
            ELSE /\ Return(p, c, c.talk, "", <<ent>>)
                 /\ addLog' = IF c.op = "Add"
                              THEN addLog \cup {<<c.n, ent.ID>>} ELSE addLog
                 /\ addedOk' = IF /\ c.op = "Add" /\ ent.ID \in DOMAIN inserted
                                  /\ creator[ent.ID] = c.n
                               THEN addedOk \cup {ent.ID} ELSE addedOk
    /\ UNCHANGED <<talks, autoInc, relVars, ncalls, creator, inserted, refs,
                   deleted, delCount>>

\* AddTalk up to and including db.Create: the INSERT and the saving of the
\* relation fields, one transaction.
AddTalk(p, t) ==
    /\ UNCHANGED <<serverVars, routerVars>>
    /\ Begin(p)
    /\ ncalls' = ncalls + 1
    /\ IF ValidateStruct(t) # {}
       THEN /\ Return(p, NewCall("Add", 0, t), t, "Validation", <<>>)
            /\ UNCHANGED <<talks, autoInc, relVars, Ghosts>>
       ELSE IF DuplicateKey(talks, NewKey(t, autoInc))
       THEN
            /\ Return(p, NewCall("Add", 0, t), t, "Unexpected", <<>>)
            /\ UNCHANGED <<talks, autoInc, relVars, Ghosts>>
       ELSE LET id == NewKey(t, autoInc)
                st == SaveAssociations(id, t, RelState)
            IN
            /\ id <= MaxId
            /\ RelBounded(st)
            /\ talks' = Put(talks, id, InsertRow(t, id))
            /\ autoInc' = Max(autoInc, id + 1)
            /\ related' = st.related /\ links' = st.links /\ relInc' = st.relInc
            /\ Continue(p, [NewCall("Add", 0, [t EXCEPT !.ID = id]) EXCEPT !.pc = "reread"])
            /\ creator' = Put(creator, id, ncalls + 1)
            /\ inserted' = Put(inserted, id, t)
            /\ refs' = Put(refs, id, [r \in RelationNames |-> DOMAIN related[r]])
            /\ deleted' = deleted \ {id}
            /\ delCount' = Put(delCount, ncalls + 1, 0)
            /\ UNCHANGED <<addedOk, addLog>>

\* AddTalk's closing GetTalkByID(talk.ID): the query on talks.
AddReread(p) ==
    /\ UNCHANGED <<serverVars, routerVars>>
    /\ call[p].op = "Add" /\ call[p].pc = "reread"
    /\ LET r == Lookup(talks, call[p].talk.ID) IN
       IF r.err # ""
       THEN Return(p, call[p], call[p].talk, r.err, <<>>)
       ELSE Continue(p, [call[p] EXCEPT !.pc = "preload", !.ent = r.ret[1], !.k = 1])
    /\ UNCHANGED <<talks, autoInc, relVars, ncalls, Ghosts>>

\* UpdateTalk up to and including Take(&Talk{}).
UpdateTalk(p, id, t) ==
    /\ UNCHANGED <<serverVars, routerVars>>
    /\ Begin(p)
    /\ ncalls' = ncalls + 1
    /\ IF ValidateStruct(t) # {}
       THEN Return(p, NewCall("Update", id, t), t, "Validation", <<>>)
       ELSE IF Match(talks, {id}) = {}
       THEN \* the error stays on the chain: Update and First run no statement
            Return(p, NewCall("Update", id, t), t, Classify(FALSE), <<>>)
       ELSE Continue(p, [NewCall("Update", id, t) EXCEPT !.pc = "update"])
    /\ UNCHANGED <<talks, autoInc, relVars, Ghosts>>

\* Update(talk): the UPDATE statement and the saving of the relation fields,
\* one transaction. The chain's value is the row Take read (key id); the
\* non-blank fields of the payload, its ID and its relation fields among them,
\* are first set on that value; the columns among them are then written, with
\* the value's key joining the WHERE clause, and the relation fields are saved
\* under the value's key.
UpdateExec(p) ==
    /\ UNCHANGED <<serverVars, routerVars>>
    /\ call[p].op = "Update" /\ call[p].pc = "update"
    /\ LET t == call[p].talk
           id == call[p].id
           value == IF "ID" \in UpdateAttrs(t) THEN t.ID ELSE id
           hits == IF NormalAttrs(t) = {} THEN {} ELSE Match(talks, {value, id})
           st == IF NormalAttrs(t) = {} THEN RelState
                 ELSE SaveAssociations(value, t, RelState)
       IN /\ RelBounded(st)
          /\ talks' = [i \in DOMAIN talks |->
                         IF i \in hits THEN SetAttrs(talks[i], t) ELSE talks[i]]
          /\ related' = st.related /\ links' = st.links /\ relInc' = st.relInc
          /\ inserted' = Drop(inserted, hits)
          /\ refs' = Drop(refs, hits)
          /\ addedOk' = addedOk \ hits
    /\ Continue(p, [call[p] EXCEPT !.pc = "first"])
    /\ UNCHANGED <<autoInc, ncalls, creator, deleted, delCount, addLog>>

\* First(&talk, id): talk is the caller's payload, its key joins the WHERE clause.
UpdateFirst(p) ==
    /\ UNCHANGED <<serverVars, routerVars>>
    /\ call[p].op = "Update" /\ call[p].pc = "first"
    /\ LET hit == Match(talks, PrimaryConds(call[p].talk) \cup {call[p].id}) IN
       IF hit = {}
       THEN Return(p, call[p], call[p].talk, Classify(FALSE), <<>>)
       ELSE Continue(p, [call[p] EXCEPT !.pc = "reread",
                                        !.talk = Scan(talks[call[p].id], @)])
    /\ UNCHANGED <<talks, autoInc, relVars, ncalls, Ghosts>>

\* UpdateTalk's closing GetTalkByID(talk.ID): the query on talks.
UpdateReread(p) ==
    /\ UNCHANGED <<serverVars, routerVars>>
    /\ call[p].op = "Update" /\ call[p].pc = "reread"
    /\ LET r == Lookup(talks, call[p].talk.ID) IN
       IF r.err # ""
       THEN Return(p, call[p], call[p].talk, r.err, <<>>)
       ELSE Continue(p, [call[p] EXCEPT !.pc = "preload", !.ent = r.ret[1], !.k = 1])
    /\ UNCHANGED <<talks, autoInc, relVars, ncalls, Ghosts>>

\* DeleteTalkByID up to and including Take(&Talk{}).
DeleteTalkByID(p, id) ==
    /\ UNCHANGED <<serverVars, routerVars>>
    /\ Begin(p)
    /\ ncalls' = ncalls + 1
    /\ IF Match(talks, {id}) = {}
       THEN Return(p, NewCall("Delete", id, ZeroTalk), ZeroTalk, Classify(FALSE), <<>>)
       ELSE Continue(p, [NewCall("Delete", id, ZeroTalk) EXCEPT
                           !.pc = "delete", !.inc = creator[id]])
    /\ UNCHANGED <<talks, autoInc, relVars, Ghosts>>

\* The DELETE statement: WHERE id = ?, any number of rows affected is success.
\* Only rows of talks go: the join rows and the talk_dates rows of the talk stay.
DeleteExec(p) ==
    /\ UNCHANGED <<serverVars, routerVars>>
    /\ call[p].op = "Delete" /\ call[p].pc = "delete"
    /\ LET hits == Match(talks, {call[p].id}) IN
       /\ talks' = DeleteRows(talks, hits)
       /\ creator' = Drop(creator, DOMAIN talks \ DOMAIN talks')
       /\ inserted' = Drop(inserted, hits)
       /\ refs' = Drop(refs, hits)
       /\ addedOk' = addedOk \ hits
    /\ deleted' = deleted \cup {call[p].id}
    /\ delCount' = [delCount EXCEPT ![call[p].inc] = @ + 1]
    /\ Return(p, call[p], ZeroTalk, "", <<>>)
    /\ UNCHANGED <<autoInc, relVars, ncalls, addLog>>

(* --------------------------- main: shutdown ---------------------------- *)

\* Requests served at once.
MaxInflight == 2

\* context.WithTimeout(context.Background(), 30*time.Second)
GracePeriod == 30

\* The signals signal.Notify can relay to the channel: os.Interrupt. os.Kill
\* cannot be caught, and SIGTERM is not asked for.
Trapped == {"SIGINT"}

Signals == {"SIGINT", "SIGTERM", "SIGKILL"}

InitServer ==
    /\ mainPc = "wait"
    /\ servePc = "starting"
    /\ listening = FALSE
    /\ inflight = 0
    /\ elapsed = 0
    /\ proc = "running"

\* s.ListenAndServe() binds the address and serves, or fails to bind.
Listen ==
    /\ UNCHANGED <<storeVars, routerVars>>
    /\ proc = "running" /\ servePc = "starting"
    /\ \/ servePc' = "serving" /\ listening' = TRUE
       \/ servePc' = "returned" /\ listening' = FALSE
    /\ UNCHANGED <<mainPc, inflight, elapsed, proc>>

\* The server accepts a connection and starts serving its request.
Accept ==
    /\ UNCHANGED <<storeVars, routerVars>>
    /\ proc = "running" /\ listening /\ inflight < MaxInflight
    /\ inflight' = inflight + 1
    /\ UNCHANGED <<mainPc, servePc, listening, elapsed, proc>>

\* A request in flight completes.
Complete ==
    /\ UNCHANGED <<storeVars, routerVars>>
    /\ proc = "running" /\ inflight > 0
    /\ inflight' = inflight - 1
    /\ UNCHANGED <<mainPc, servePc, listening, elapsed, proc>>

\* A signal arrives: a trapped one is relayed to main's channel, any other
\* ends the process.
Signal(sig) ==
    /\ UNCHANGED <<storeVars, routerVars>>
    /\ proc = "running"
    /\ IF sig \in Trapped
       THEN /\ mainPc' = IF mainPc = "wait" THEN "signalled" ELSE mainPc
            /\ UNCHANGED proc
       ELSE /\ proc' = "killed"
            /\ UNCHANGED mainPc
    /\ UNCHANGED <<servePc, listening, inflight, elapsed>>

\* main calls s.Shutdown(ctx): the listener is closed, and ListenAndServe
\* returns ErrServerClosed at once.
ShutdownStart ==
    /\ UNCHANGED <<storeVars, routerVars>>
    /\ proc = "running" /\ mainPc = "signalled"
    /\ mainPc' = "shutdown"
    /\ listening' = FALSE
    /\ servePc' = "returned"
    /\ elapsed' = 0
    /\ UNCHANGED <<inflight, proc>>

\* The goroutine: ListenAndServe returned a non-nil error, os.Exit(1).
ServeExit ==
    /\ UNCHANGED <<storeVars, routerVars>>
    /\ proc = "running" /\ servePc = "returned"
    /\ proc' = "exit1"
    /\ UNCHANGED <<mainPc, servePc, listening, inflight, elapsed>>

\* A second of the grace period passes.
Tick ==
    /\ UNCHANGED <<storeVars, routerVars>>
    /\ proc = "running" /\ mainPc = "shutdown" /\ elapsed < GracePeriod
    /\ elapsed' = elapsed + 1
    /\ UNCHANGED <<mainPc, servePc, listening, inflight, proc>>

\* Shutdown returns, no request being in flight or the context having
\* expired; main returns and the process exits.
ShutdownReturn ==
    /\ UNCHANGED <<storeVars, routerVars>>
    /\ proc = "running" /\ mainPc = "shutdown"
    /\ inflight = 0 \/ elapsed = GracePeriod
    /\ mainPc' = "returned"
    /\ proc' = "exit0"
    /\ UNCHANGED <<servePc, listening, inflight, elapsed>>

NextServer ==
    \/ Listen
    \/ Accept
    \/ Complete
    \/ \E sig \in Signals : Signal(sig)
    \/ ShutdownStart
    \/ ServeExit
    \/ Tick
    \/ ShutdownReturn

(* ------------------------- main: the route table ----------------------- *)

\* alice.New(middleware.EnforceJsonContentType, middleware.OIDCMiddleware(...)),
\* a variant that leaves the verifier out, and one that runs it first.
jsonChainNoVerifier == <<"EnforceJsonContentType">>

jsonChainVerifierFirst == <<"OIDCMiddleware", "EnforceJsonContentType">>

jsonChain == <<"EnforceJsonContentType", "OIDCMiddleware">>

\* alice.New(middleware.OIDC(...))
oidcChain == <<"OIDC">>

noChain == <<>>

Methods == {"GET", "POST", "PUT", "DELETE"}

\* The routes in the order they are registered; methods {} stands for a route
\* registered without Methods(...).
Routes ==
    << [path |-> "/", methods |-> {}, chain |-> noChain, handler |-> "healthHandler"],
       [path |-> "/locations", methods |-> {"GET"}, chain |-> oidcChain,
        handler |-> "GetLocations"],
       [path |-> "/locations/{id}", methods |-> {"GET"}, chain |-> noChain,
        handler |-> "GetLocation"],
       [path |-> "/locations", methods |-> {"POST"}, chain |-> jsonChain,
        handler |-> "CreateLocation"],
       [path |-> "/locations/{id}", methods |-> {"PUT"}, chain |-> jsonChain,
        handler |-> "UpdateLocation"],
       [path |-> "/locations/{id}", methods |-> {"DELETE"}, chain |-> noChain,
        handler |-> "DeleteLocation"],
       [path |-> "/demo/callback", methods |-> {}, chain |-> noChain,
        handler |-> "healthHandler"],
       [path |-> "/metrics", methods |-> {}, chain |-> noChain,
        handler |-> "promhttp"] >>

Paths == {"/", "/locations", "/locations/{id}", "/demo/callback", "/metrics", "/talks"}

ContentTypes == {"application/json", "text/plain", ""}

\* The Authorization header: absent, not a bearer token, a bearer token the
\* verifier rejects, a bearer token it accepts.
Tokens == {"none", "malformed", "invalid", "valid"}

Requests == [method : Methods, path : Paths, ctype : ContentTypes, token : Tokens]

NoRequest == [method |-> "", path |-> "", ctype |-> "", token |-> ""]

RouteMatches(rt, r) ==
    rt.path = r.path /\ (rt.methods = {} \/ r.method \in rt.methods)

\* mux: the first registered route that matches, 0 when none does.
RouteOf(r) ==
    LET hits == { i \in 1..Len(Routes) : RouteMatches(Routes[i], r) } IN
    IF hits = {} THEN 0 ELSE CHOOSE i \in hits : \A j \in hits : i <= j

\* mux answers 405 when only the method fails to match, 404 otherwise.
NoRouteStatus(r) ==
    IF \E i \in 1..Len(Routes) : Routes[i].path = r.path THEN 405 ELSE 404

\* alice's Then: the chain's constructors run in the order given, then the handler.
Then(c, h) == c \o <<h>>

\* A middleware lets the request through (0) or answers it with a status.
Middleware(name, r) ==
    CASE name = "EnforceJsonContentType" ->
            IF r.ctype = "application/json" THEN 0 ELSE 415
      [] name \in {"OIDC", "OIDCMiddleware"} ->
            IF r.token = "valid" THEN 0 ELSE 401

\* The statuses a handler writes.
HandlerStatus(h) ==
    CASE h = "healthHandler" -> {204}
      [] h = "promhttp" -> {200}
      [] h = "GetLocations" -> {200, 500}
      [] h = "GetLocation" -> {200, 400, 404, 500}
      [] h = "CreateLocation" -> {201, 400, 422, 500}
      [] h = "UpdateLocation" -> {200, 400, 404, 422, 500}
      [] h = "DeleteLocation" -> {204, 400, 404, 500}

Handlers == { Routes[i].handler : i \in 1..Len(Routes) }

InitRouter ==
    /\ req = NoRequest
    /\ chain = <<>>
    /\ pos = 0
    /\ status = 0
    /\ ran = <<>>

\* The router takes a request and matches it against the route table.
Receive(r) ==
    /\ UNCHANGED <<storeVars, serverVars>>
    /\ pos = 0
    /\ req' = r
    /\ ran' = <<>>
    /\ LET i == RouteOf(r) IN
       IF i = 0
       THEN /\ chain' = <<>> /\ pos' = 0 /\ status' = NoRouteStatus(r)
       ELSE /\ chain' = Then(Routes[i].chain, Routes[i].handler)
            /\ pos' = 1 /\ status' = 0

\* The next middleware of the chain runs.
RunMiddleware ==
    /\ UNCHANGED <<storeVars, serverVars>>
    /\ pos > 0 /\ pos < Len(chain)
    /\ ran' = Append(ran, chain[pos])
    /\ LET code == Middleware(chain[pos], req) IN
       IF code = 0
       THEN pos' = pos + 1 /\ UNCHANGED status
       ELSE pos' = 0 /\ status' = code
    /\ UNCHANGED <<req, chain>>

\* The chain is through: the handler runs and answers.
RunHandler ==
    /\ UNCHANGED <<storeVars, serverVars>>
    /\ pos > 0 /\ pos = Len(chain)
    /\ ran' = Append(ran, chain[pos])
    /\ status' \in HandlerStatus(chain[pos])
    /\ pos' = 0
    /\ UNCHANGED <<req, chain>>

NextRouter ==
    \/ \E r \in Requests : Receive(r)
    \/ RunMiddleware
    \/ RunHandler

(* --------------------------- specifications ---------------------------- *)

Init == InitStore /\ InitServer /\ InitRouter

Next ==
    \E p \in Procs :
        \/ \E id \in Ids : GetTalkByID(p, id)
        \/ \E t \in Payloads : AddTalk(p, t)
        \/ AddReread(p)
        \/ Preload(p)
        \/ \E id \in Ids, t \in Payloads : UpdateTalk(p, id, t)
        \/ UpdateExec(p)
        \/ UpdateFirst(p)
        \/ UpdateReread(p)
        \/ \E id \in Ids : DeleteTalkByID(p, id)
        \/ DeleteExec(p)

\* The store under concurrent calls.
Spec == Init /\ [][Next]_vars

\* The store under concurrent calls whose payloads carry related values.
NextRelated ==
    \E p \in Procs :
        \/ \E id \in Ids : GetTalkByID(p, id)
        \/ \E t \in Related : AddTalk(p, t)
        \/ AddReread(p)
        \/ Preload(p)
        \/ \E id \in Ids, t \in RelatedUpdates : UpdateTalk(p, id, t)
        \/ UpdateExec(p)
        \/ UpdateFirst(p)
        \/ UpdateReread(p)
        \/ \E id \in Ids : DeleteTalkByID(p, id)
        \/ DeleteExec(p)

SpecRelated == Init /\ [][NextRelated]_vars

\* The process from start to exit.
SpecServer == Init /\ [][NextServer]_vars

\* The router, one request after another.
SpecRouter == Init /\ [][NextRouter]_vars

\* Only AddTalk calls, overlapping freely.
NextAdd ==
    \E p \in Procs :
        \/ \E t \in Payloads : AddTalk(p, t)
        \/ AddReread(p)
        \/ Preload(p)

SpecAdd == Init /\ [][NextAdd]_vars

(* ------------------------------ claims -------------------------------- *)

\* The required columns a Talk lacks: a blank title, duration or language, a
\* level that is none of the declared ones.
MissingFields(t) ==
    { f \in Columns :
        IF f = "Level" THEN t.Level \notin TalkLevels ELSE IsBlank(f, t[f]) }

\* This step starts a call of o on key i.
StartedNow(o, i) ==
    /\ ncalls' = ncalls + 1
    /\ \/ last'.n = ncalls' /\ last'.op = o /\ last'.id = i
       \/ \E p \in Procs : call'[p].n = ncalls' /\ call'[p].op = o /\ call'[p].id = i

\* This step starts a call of o with payload t.
StartedWith(o, t) ==
    /\ ncalls' = ncalls + 1
    /\ \/ last'.n = ncalls' /\ last'.op = o /\ last'.arg = t
       \/ \E p \in Procs : call'[p].n = ncalls' /\ call'[p].op = o
                           /\ [call'[p].talk EXCEPT !.ID = t.ID] = t

\* C1: a GetTalkByID, UpdateTalk or DeleteTalkByID on a key that has no row
\* when the call runs returns at once, with the not-found error.
C1_AbsentIdIsNotFound ==
    [][\A o \in {"Get", "Update", "Delete"}, i \in Ids :
         (i \notin DOMAIN talks /\ StartedNow(o, i))
            => (last'.n = ncalls' /\ last'.err = "NotFound" /\ talks' = talks)]_vars

C1_Witness ==
    /\ last.op = "Update" /\ last.err = "NotFound" /\ last.id \notin DOMAIN talks
    /\ \E p \in Procs : call[p].op = "Delete"

\* C2, as claimed: an AddTalk or UpdateTalk whose Talk lacks a required field
\* returns a validation error and leaves the table as it was.
C2_InvalidTalkIsRejected ==
    [][\A o \in {"Add", "Update"}, t \in Payloads :
         (MissingFields(t) # {} /\ StartedWith(o, t))
            => (last'.n = ncalls' /\ last'.err = "Validation" /\ talks' = talks)]_vars

\* Goroutine p's GetTalkByID returns in this step, having read from talks a
\* row i whose AddTalk succeeded and which no UPDATE or DELETE has touched
\* from its insert to this return.
GetOfAdded(p, i) ==
    /\ call[p].op = "Get" /\ call[p].pc = "preload" /\ call[p].id = i
    /\ last'.n = call[p].n
    /\ i \in addedOk /\ creator[i] = call[p].inc

\* C6, as claimed: GetTalkByID on a row whose AddTalk succeeded, and which no
\* UPDATE or DELETE has touched since, returns an entity equal to the payload
\* of that AddTalk in every field but the ID: the four columns and, element
\* by element, the three relation fields (the key of an element the payload
\* sent without one aside).
C6_AddThenGetEqualsPayload ==
    [][\A p \in Procs, i \in Ids :
         GetOfAdded(p, i)
            => /\ last'.err = "" /\ Len(last'.ret) = 1
               /\ last'.ret[1].ID = i
               /\ \A f \in Columns : last'.ret[1][f] = inserted[i][f]
               /\ \A r \in RelationNames :
                    /\ Len(last'.ret[1][r]) = Len(inserted[i][r])
                    /\ \A k \in 1..Len(inserted[i][r]) :
                         /\ last'.ret[1][r][k].Data = inserted[i][r][k].Data
                         /\ inserted[i][r][k].ID # 0
                              => last'.ret[1][r][k].ID = inserted[i][r][k].ID]_vars

\* The relation fields whose rows no statement of the store rewrites once
\* they are stored: a topic is rewritten when it is saved as a child.
Settled == {"Persons", "TalkDates"}

\* C6, amended: GetTalkByID on a row whose AddTalk succeeded, and which no
\* UPDATE or DELETE has touched since, returns under the row's key the four
\* columns of the payload of that AddTalk; its relation fields are read from
\* storage and are not the payload's. Every element returned is a stored
\* related row, a Person or TalkDate with its stored content. An element the
\* payload sent without a key comes back under a key the store assigned, a
\* Person or TalkDate with the payload's content. A Person or Topic the
\* payload named by the key of a row stored at the insert comes back under
\* that key, a Person with the content of that row, not the payload's. Rows
\* linked to the key by other statements may come back as well, a TalkDate
\* the payload named by key need not come back, and the content of a Topic
\* and the nested values are as the preload queries found them.
C6_AddThenGet ==
    [][\A p \in Procs, i \in Ids :
         GetOfAdded(p, i)
            => /\ last'.err = "" /\ Len(last'.ret) = 1
               /\ last'.ret[1].ID = i
               /\ \A f \in Columns : last'.ret[1][f] = inserted[i][f]
               /\ \A r \in RelationNames :
                    /\ \A x \in Range(last'.ret[1][r]) :
                         /\ x.ID \in DOMAIN related[r]
                         /\ r \in Settled => x.Data = related[r][x.ID].Data
                    /\ \A q \in Range(inserted[i][r]) :
                         /\ q.ID = 0
                              => \E x \in Range(last'.ret[1][r]) :
                                    /\ x.ID \notin refs[i][r] \cup {0}
                                    /\ r \in Settled => x.Data = q.Data
                         /\ (r \in ManyToMany /\ q.ID \in refs[i][r])
                              => \E x \in Range(last'.ret[1][r]) : x.ID = q.ID]_vars

\* A GetTalkByID has returned a talk added with a Person named by the key of
\* a stored row: the person comes back with the stored content, and with the
\* organization of the stored row.
C6_Witness ==
    /\ last.op = "Get" /\ last.id \in addedOk /\ last.err = ""
    /\ inserted[last.id].Persons = <<Elem("Persons", 1, "sent")>>
    /\ Len(last.ret[1].Persons) = 1
    /\ last.ret[1].Persons[1].ID = 1
    /\ last.ret[1].Persons[1].Data = "stored"
    /\ Len(last.ret[1].Persons[1].Sub.Organization) = 1

\* C7, as claimed: the UPDATE of an UpdateTalk(id, e) that finds its row leaves
\* every column of the row equal to e's, blank ones included, and the call
\* returns the row as it is in the table.
C7_UpdateReplacesEveryField ==
    [][\A p \in Procs :
         /\ (call[p].op = "Update" /\ call[p].pc = "update" /\ call'[p].pc = "first"
             /\ call[p].id \in DOMAIN talks /\ call[p].talk.ID \in {0, call[p].id})
               => \A f \in Columns : talks'[call[p].id][f] = call[p].talk[f]
         /\ (call[p].op = "Update" /\ call[p].pc = "reread"
             /\ call'[p].pc = "preload")
               => /\ call'[p].ent.ID = call[p].id
                  /\ \A f \in Columns : call'[p].ent[f] = talks[call[p].id][f]]_vars

\* C8: with only AddTalk calls running, no two calls return the same id, and
\* the row a call returns is the one that call inserted.
C8_AddIdsAreUnique ==
    \A a \in addLog :
        /\ a[2] \in DOMAIN creator /\ creator[a[2]] = a[1]
        /\ \A b \in addLog : a[2] = b[2] => a[1] = b[1]

\* Two AddTalk calls have returned, the one that started later first.
C8_Witness ==
    /\ Cardinality(addLog) = 2
    /\ \E a \in addLog : last.n # a[1] /\ last.n < a[1] /\ last.op = "Add"

\* C9: once a DeleteTalkByID has reported a key deleted, and until an insert
\* brings the key back, every DeleteTalkByID started on it returns at once
\* with the not-found error and changes no row.
C9_RepeatedDeleteIsNotFound ==
    [][\A i \in deleted :
         StartedNow("Delete", i)
            => (last'.n = ncalls' /\ last'.err = "NotFound" /\ talks' = talks)]_vars

C9_Witness ==
    last.op = "Delete" /\ last.err = "NotFound" /\ last.id \in deleted

\* C10, as claimed: a row is reported deleted by at most one DeleteTalkByID.
C10_OneDeleteSucceeds ==
    \A c \in DOMAIN delCount : delCount[c] <= 1

\* C3, as claimed: once main has received a termination signal the listener
\* is closed by Shutdown, and the process exits only with no request in
\* flight or with the grace period over.
C3_ExitWaitsForInflight ==
    /\ mainPc \in {"shutdown", "returned"} => ~listening
    /\ (mainPc # "wait" /\ proc \in {"exit0", "exit1"})
          => (inflight = 0 \/ elapsed = GracePeriod)

\* The routes the claims on the token and the content type are about.
Guarded(r) ==
    \/ r.path = "/locations" /\ r.method \in {"GET", "POST"}
    \/ r.path = "/locations/{id}" /\ r.method = "PUT"

Mutating(r) ==
    \/ r.path = "/locations" /\ r.method = "POST"
    \/ r.path = "/locations/{id}" /\ r.method = "PUT"

Verifiers == {"OIDC", "OIDCMiddleware"}

\* C4, as claimed: on GET /locations, POST /locations and PUT /locations/{id}
\* every request whose token the verifier does not accept is answered 401.
C4_BadTokenIs401 ==
    (Guarded(req) /\ req.token # "valid" /\ pos = 0) => status = 401

\* C4, amended: on GET /locations, POST /locations and PUT /locations/{id} the
\* handler runs only after the token verifier ran on a token it accepts; a
\* request whose token it does not accept never reaches the handler and is
\* answered 401, except that a POST or PUT whose Content-Type is not
\* application/json is answered 415 before its token is looked at.
C4_HandlerOnlyAfterVerifiedToken ==
    Guarded(req) =>
        /\ \A i \in 1..Len(ran) :
              ran[i] \in Handlers =>
                 /\ req.token = "valid"
                 /\ \E j \in 1..(i - 1) : ran[j] \in Verifiers
        /\ (req.token # "valid" /\ pos = 0) =>
              status = IF Mutating(req) /\ req.ctype # "application/json"
                       THEN 415 ELSE 401

C4_Witness ==
    /\ req.method = "POST" /\ req.path = "/locations" /\ pos = 0
    /\ ran = <<"EnforceJsonContentType", "OIDCMiddleware", "CreateLocation">>

\* C5: a POST /locations or PUT /locations/{id} whose Content-Type is not
\* application/json is answered 415 whatever its token: the content-type
\* check runs first, and neither the verifier nor the handler runs.
C5_ContentTypeCheckedFirst ==
    (Mutating(req) /\ req.ctype # "application/json") =>
        /\ \A i \in 1..Len(ran) : ran[i] \notin Verifiers \cup Handlers
        /\ pos = 0 => (status = 415 /\ ran = <<"EnforceJsonContentType">>)

C5_Witness ==
    /\ req.method = "PUT" /\ req.path = "/locations/{id}" /\ req.ctype = ""
    /\ req.token = "valid" /\ status = 415

====
